---- MODULE Spec2Model ----
(***************************************************************************)
(* Model of dtb_selector.py: the interactive selection-and-copy workflow   *)
(* (catalog load, brand menu, console menu, confirmation, cleanup, copy,   *)
(* language tagging, summary) over an abstract working directory.          *)
(*                                                                         *)
(* A file name is a record [dir, stem, ext]; "x.dtb" in the working        *)
(* directory is [dir |-> ".", stem |-> "x", ext |-> ".dtb"], the marker    *)
(* ".cn" is [dir |-> ".", stem |-> "", ext |-> ".cn"].  The working        *)
(* directory maps every name to its content, or to Absent.  The content of *)
(* a file copied from consoles/<d> is d, so the content also tells where a *)
(* file came from.  A directory exists when a file below it exists.        *)
(***************************************************************************)
EXTENDS Integers, Sequences, FiniteSets, TLC

\* ---------------------------------------------------------------- bounds
MaxRuns == 2

MaxConsoles == 2

MaxEntries == 2

MaxInvalid == 1

\* ------------------------------------------------------------ file names
Absent == "absent"

None == "None"

\* exit status of a process that is still running
Running == -1

\* main() has no console yet
NoConsole == [real_name |-> "", brand_entries |-> <<>>, extra_sources |-> <<>>,
              display_name |-> ""]

F(d, s, e) == [dir |-> d, stem |-> s, ext |-> e]

XDtb == F(".", "x", ".dtb")

BootIni == F(".", "boot", ".ini")

BootImg == F(".", "boot", ".img")

Logo == F("BMPs", "logo", ".bmp")

DotCn == F(".", "", ".cn")

DotBr == F(".", "", ".br")

DotEn == F(".", "", ".en")

Names == {XDtb, BootIni, BootImg, Logo, DotCn, DotBr, DotEn}

\* consoles/<d> trees next to the working directory; "ghost" and "nowhere"
\* are named by the catalog but do not exist on disk.
SourceDirs == {"r36s", "k36", "shared"}

Tree(d) ==
  CASE d = "r36s" -> {XDtb}
    [] d = "k36" -> {BootImg}
    [] d = "shared" -> {Logo}
    [] OTHER -> {}

Contents == SourceDirs \cup {"user", "chinese", "portugues_brasil"}

\* names the user may have put in the working directory by hand
UserFiles == {XDtb}

\* the text apply_language writes into a marker
MarkerTexts == [cn |-> "chinese", br |-> "portugues_brasil"]

\* What a name can hold when a run starts: nothing, a file of the user, the
\* file an earlier run copied there from one of the consoles/ trees, or the
\* marker an earlier run wrote.
InitialContents(n) ==
  {Absent} \cup (IF n \in UserFiles THEN {"user"} ELSE {})
           \cup {d \in SourceDirs : n \in Tree(d)}
           \cup (IF n = DotCn THEN {MarkerTexts.cn} ELSE {})
           \cup (IF n = DotBr THEN {MarkerTexts.br} ELSE {})

NameSeq == <<XDtb, BootIni, BootImg, Logo, DotCn, DotBr, DotEn>>

IndexOf(n) == CHOOSE i \in 1..Len(NameSeq) : NameSeq[i] = n

InitialDirs ==
  {[n \in Names |-> t[IndexOf(n)]] :
     t \in InitialContents(NameSeq[1]) \X InitialContents(NameSeq[2])
            \X InitialContents(NameSeq[3]) \X InitialContents(NameSeq[4])
            \X InitialContents(NameSeq[5]) \X InitialContents(NameSeq[6])
            \X InitialContents(NameSeq[7])}

\* ------------------------------------------------------- the catalog file
Entry(b, n) == [brand |-> b, display_name |-> n]

Console(r, es, xs) == [real_name |-> r, brand_entries |-> es, extra_sources |-> xs]

CatalogConsoles ==
  << Console("r36s", <<Entry("A", "R36S"), Entry("B", "R36S clone")>>, <<"nowhere", "shared">>),
     Console("k36", <<Entry("A", "K36")>>, <<>>),
     Console("ghost", <<Entry("B", "Ghost")>>, <<"shared">>) >>

CatalogBrands == <<"A", "B", "C">>

\* consoles.json: a readable document, or one of the three ways it can be bad
Document(cs, bs) == [state |-> "ok", consoles |-> cs, brands |-> bs]

BadCatalog(how) == [state |-> how, consoles |-> <<>>, brands |-> <<>>]

CatalogFiles ==
  {Document(CatalogConsoles, CatalogBrands)}
    \cup {BadCatalog(how) : how \in {"absent", "malformed", "nokey"}}

\* every catalog of at most MaxConsoles consoles with at most MaxEntries
\* brand entries each
SeqsUpTo(S, k) == UNION {[1..m -> S] : m \in 0..k}

RealNames == <<"r36s", "k36", "ghost", "nowhere">>

\* the display name of entry i of console k: every entry has its own
DisplayNames ==
  << <<"r36s 1", "r36s 2", "r36s 3", "r36s 4">>, <<"k36 1", "k36 2", "k36 3", "k36 4">>,
     <<"ghost 1", "ghost 2", "ghost 3", "ghost 4">>,
     <<"nowhere 1", "nowhere 2", "nowhere 3", "nowhere 4">> >>

SmallCatalogs ==
  LET lists == SeqsUpTo(SeqsUpTo({"A", "B"}, MaxEntries), MaxConsoles) IN
  {Document([k \in 1..Len(l) |->
               Console(RealNames[k],
                       [i \in 1..Len(l[k]) |-> Entry(l[k][i], DisplayNames[k][i])],
                       <<>>)],
            CatalogBrands) :
     l \in lists}

\* ------------------------------------------------------------------ state
VARIABLES
  pc,           \* position of main(): which prompt or stage comes next
  catalog,      \* state of consoles.json on disk for this run
  CONSOLES,     \* global CONSOLES
  BRANDS,       \* global BRANDS
  wd,           \* the working directory: Names -> Contents \cup {Absent}
  wd_start,     \* the working directory when the run started
  brand,        \* local brand of main()
  console,      \* local console of main()
  language,     \* local language of main()
  exit_code,    \* Running, then the process exit status
  message,      \* the last terminal message of the run
  shown,        \* the menus and screens shown in this run
  stages,       \* the stages executed in this run, in order
  copy_log,     \* what copy_console visited, in order
  copy_result,  \* what copy_console returned (FALSE before it ran)
  failed,       \* some best-effort operation of this run failed
  confirmed,    \* the confirmation answer of this run was affirmative
  prev,         \* choices and final working directory of the previous run
  runs,         \* number of runs started
  brand_consoles, \* local brand_consoles of console_menu()
  invalid,      \* rejected inputs at the menus of this run
  lang_report,  \* the language line of the success summary
  typed,        \* the line the last step read and kept, NoLine if it read none
  lang_log      \* what apply_language could not remove and whether it wrote

vars == <<pc, catalog, CONSOLES, BRANDS, wd, wd_start, brand, console, language,
          exit_code, message, shown, stages, copy_log, copy_result, failed,
          confirmed, prev, runs, brand_consoles, invalid, lang_report, typed,
          lang_log>>

\* ------------------------------------------------------------ filesystem
Exists(w, n) == w[n] # Absent

\* glob.glob(pattern) in the working directory: "*<ext>" matches the
\* non-hidden top-level names with that extension, a literal matches itself.
Glob(w, pattern) ==
  IF pattern.star
    THEN {n \in Names : n.dir = "." /\ n.stem # "" /\ n.ext = pattern.ext /\ Exists(w, n)}
    ELSE {n \in Names : n.dir = "." /\ n.stem = "" /\ n.ext = pattern.ext /\ Exists(w, n)}

Star(e) == [star |-> TRUE, ext |-> e]

Literal(e) == [star |-> FALSE, ext |-> e]

patterns == <<Star(".dtb"), Star(".ini"), Star(".orig"), Star(".tony"),
              Literal(".cn"), Literal(".en"), Literal(".br")>>

Range(s) == {s[i] : i \in 1..Len(s)}

GlobAll(w) == UNION {Glob(w, p) : p \in Range(patterns)}

BMPsFiles(w) == {n \in Names : n.dir = "BMPs" /\ Exists(w, n)}

\* os.remove / shutil.rmtree of the names in gone
Remove(w, gone) == [n \in Names |-> IF n \in gone THEN Absent ELSE w[n]]

\* clean_destination_directory when the names in stuck cannot be removed
CleanDestinationNested(w, stuck) ==
  IF GlobAll(w) \ stuck = {}
    THEN Remove(w, (GlobAll(w) \cup BMPsFiles(w)) \ stuck)
    ELSE Remove(w, GlobAll(w) \ stuck)

CleanDestination(w, stuck) ==
  Remove(w, (GlobAll(w) \cup BMPsFiles(w)) \ stuck)

\* the files of consoles/<d> that land in the working directory when the
\* names in ok are the ones the copy manages to write
Merge(w, d, ok) == [n \in Names |-> IF n \in ok THEN d ELSE w[n]]

SourceExists(d) == d \in SourceDirs

\* ------------------------------------------------------------ user input
\* An input line is a sequence of characters.
Space == " "

RECURSIVE LStrip(_)
LStrip(s) == IF s # <<>> /\ Head(s) = Space THEN LStrip(Tail(s)) ELSE s

RECURSIVE RStrip(_)
RStrip(s) ==
  IF s # <<>> /\ s[Len(s)] = Space THEN RStrip(SubSeq(s, 1, Len(s) - 1)) ELSE s

\* str.strip()
Strip(s) == RStrip(LStrip(s))

DigitValue(c) ==
  CASE c = "0" -> 0 [] c = "1" -> 1 [] c = "2" -> 2 [] c = "3" -> 3 [] c = "4" -> 4
    [] c = "5" -> 5 [] c = "6" -> 6 [] c = "7" -> 7 [] c = "8" -> 8 [] c = "9" -> 9
    [] OTHER -> -1

IsDigits(s) == s # <<>> /\ \A i \in 1..Len(s) : DigitValue(s[i]) >= 0

RECURSIVE DigitsValue(_)
DigitsValue(s) ==
  IF s = <<>> THEN 0 ELSE 10 * DigitsValue(SubSeq(s, 1, Len(s) - 1)) + DigitValue(s[Len(s)])

\* int(choice): [ok |-> FALSE] stands for ValueError
ToInt(s) ==
  IF IsDigits(s) THEN [ok |-> TRUE, val |-> DigitsValue(s)]
  ELSE IF s # <<>> /\ Head(s) = "-" /\ IsDigits(Tail(s))
    THEN [ok |-> TRUE, val |-> 0 - DigitsValue(Tail(s))]
  ELSE IF s # <<>> /\ Head(s) = "+" /\ IsDigits(Tail(s))
    THEN [ok |-> TRUE, val |-> DigitsValue(Tail(s))]
  ELSE [ok |-> FALSE, val |-> 0]

LowerChar(c) ==
  CASE c = "Y" -> "y" [] c = "E" -> "e" [] c = "S" -> "s" [] c = "I" -> "i"
    [] c = "M" -> "m" [] c = "N" -> "n" [] c = "Q" -> "q" [] OTHER -> c

\* str.lower()
Lower(s) == [i \in 1..Len(s) |-> LowerChar(s[i])]

MenuInputs ==
  { <<>>, <<" ">>, <<"x">>, <<"0">>, <<"1">>, <<"2">>, <<"3">>, <<"4">>,
    <<"-", "1">>, <<" ", "2", " ">> }

ConfirmInputs ==
  { <<>>, <<"n">>, <<"y">>, <<"Y">>, <<"y", "e", "s">>, <<"s">>, <<"S", "I", "M">>,
    <<" ", "y", " ">>, <<"y", "e">> }

IntroInputs == { <<>>, <<"q">>, <<" ", "Q">>, <<"x">> }

AffirmativePrefix == { <<"s">>, <<"s", "i", "m">>, <<"y">>, <<"y", "e", "s">>, <<"y", "e">> }

Affirmative == { <<"s">>, <<"s", "i", "m">>, <<"y">>, <<"y", "e", "s">> }

\* ------------------------------------------------------------------ menus
\* console_menu, the filter: one item per brand entry of selected_brand,
\* consoles in catalog order and entries in record order
RECURSIVE EntryItemsFirstOnly(_, _, _)
EntryItemsFirstOnly(c, selected_brand, i) ==
  IF i > Len(c.brand_entries) THEN <<>>
  ELSE IF c.brand_entries[i].brand = selected_brand
    THEN << [console_config |-> c, display_name |-> c.brand_entries[i].display_name] >>
    ELSE EntryItemsFirstOnly(c, selected_brand, i + 1)

RECURSIVE EntryItems(_, _, _)
EntryItems(c, selected_brand, i) ==
  IF i > Len(c.brand_entries) THEN <<>>
  ELSE (IF c.brand_entries[i].brand = selected_brand
          THEN << [console_config |-> c, display_name |-> c.brand_entries[i].display_name] >>
          ELSE <<>>)
       \o EntryItems(c, selected_brand, i + 1)

RECURSIVE BrandConsoles(_, _, _)
BrandConsoles(cs, selected_brand, k) ==
  IF k > Len(cs) THEN <<>>
  ELSE EntryItems(cs[k], selected_brand, 1) \o BrandConsoles(cs, selected_brand, k + 1)

\* console_config = selected_console["console_config"].copy() with display_name set
SelectedConsole(item) ==
  [real_name |-> item.console_config.real_name,
   brand_entries |-> item.console_config.brand_entries,
   extra_sources |-> item.console_config.extra_sources,
   display_name |-> item.display_name]

\* ------------------------------------------------------------------- Init
\* no line: the step read no input, or input() raised, or the line was dropped
NoLine == <<"no line">>

\* apply_language has not run
NoLangLog == [ran |-> FALSE, before |-> {}, stuck |-> {}, written |-> FALSE]

NoPrev == [valid |-> FALSE]

FreshRun ==
  /\ pc = "start"
  /\ CONSOLES = <<>>
  /\ BRANDS = <<>>
  /\ brand = None
  /\ console = NoConsole
  /\ language = None
  /\ exit_code = Running
  /\ message = None
  /\ shown = {}
  /\ stages = <<>>
  /\ copy_log = <<>>
  /\ copy_result = FALSE
  /\ failed = FALSE
  /\ confirmed = FALSE
  /\ brand_consoles = <<>>
  /\ invalid = 0
  /\ lang_report = None
  /\ typed = NoLine
  /\ lang_log = NoLangLog

Init ==
  /\ FreshRun
  /\ catalog \in CatalogFiles
  /\ wd \in InitialDirs
  /\ wd_start = wd
  /\ prev = NoPrev
  /\ runs = 1

\* the process ends with status code and its last message
Exit(code, msg) ==
  /\ pc' = "exited"
  /\ exit_code' = code
  /\ message' = msg

\* input() raised KeyboardInterrupt or EOFError at a prompt:
\* read_input, wait_for_enter and show_introduction print the cancellation
\* message and sys.exit(0)
Prompts ==
  {"intro", "brand_menu", "brand_wait", "noconsoles_wait", "console_menu", "console_wait",
   "confirm", "language_menu", "language_wait", "summary"}

\* ------------------------------------------------------- catalog and intro
\* the except clauses of load_configuration: one message per failure
ConfigErrorMerged(state) ==
  CASE state = "absent" -> "file_not_found"
    [] OTHER -> "json_error"

ConfigError(state) ==
  CASE state = "absent" -> "file_not_found"
    [] state = "malformed" -> "json_error"
    [] OTHER -> "invalid_structure"

LoadConfiguration ==
  /\ typed' = NoLine
  /\ UNCHANGED lang_log
  /\ pc = "start"
  /\ IF catalog.state = "ok"
       THEN /\ CONSOLES' = catalog.consoles
            /\ BRANDS' = catalog.brands
            /\ pc' = "intro"
            /\ shown' = shown \cup {"intro"}
            /\ UNCHANGED <<exit_code, message>>
       ELSE /\ Exit(1, ConfigError(catalog.state))
            /\ UNCHANGED <<CONSOLES, BRANDS, shown>>
  /\ UNCHANGED <<catalog, wd, wd_start, brand, console, language, stages, copy_log,
                 copy_result, failed, confirmed, prev, runs, brand_consoles, invalid,
                 lang_report>>

ShowBrandMenu ==
  /\ pc' = "brand_menu"
  /\ shown' = shown \cup {"brand_menu"}

ShowIntroduction ==
  /\ UNCHANGED lang_log
  /\ pc = "intro"
  /\ \E in \in IntroInputs :
     /\ typed' = in
     /\ IF Lower(Strip(in)) = <<"q">>
         THEN Exit(0, "goodbye") /\ UNCHANGED shown
         ELSE ShowBrandMenu /\ UNCHANGED <<exit_code, message>>
  /\ UNCHANGED <<catalog, CONSOLES, BRANDS, wd, wd_start, brand, console, language,
                 stages, copy_log, copy_result, failed, confirmed, prev, runs,
                 brand_consoles, invalid, lang_report>>

Cancel ==
  /\ typed' = NoLine
  /\ UNCHANGED lang_log
  /\ pc \in Prompts
  /\ Exit(0, "operation_cancelled")
  /\ UNCHANGED <<catalog, CONSOLES, BRANDS, wd, wd_start, brand, console, language,
                 shown, stages, copy_log, copy_result, failed, confirmed, prev, runs,
                 brand_consoles, invalid, lang_report>>

\* ------------------------------------------------------------- brand menu
\* main() after brand_menu returned b: console_menu(b) up to its first prompt
EnterConsoleMenu(b) ==
  LET items == BrandConsoles(CONSOLES, b, 1) IN
  /\ brand' = b
  /\ brand_consoles' = items
  /\ invalid' = 0
  /\ IF items = <<>>
       THEN pc' = "noconsoles_wait" /\ message' = "no_consoles_found" /\ UNCHANGED shown
       ELSE pc' = "console_menu" /\ shown' = shown \cup {"console_menu"}
            /\ UNCHANGED message
  /\ UNCHANGED <<exit_code, wd, stages, failed>>

\* 1 <= choice_num <= len(list)
InRangeShort(n, list) == 1 <= n /\ n < Len(list)

InRange(n, list) == 1 <= n /\ n <= Len(list)

Reject(waitpc) ==
  /\ invalid < MaxInvalid
  /\ invalid' = invalid + 1
  /\ pc' = waitpc
  /\ UNCHANGED <<wd, stages, failed>>

\* main() after brand_menu returned None: a goodbye message and return
BrandExitAfterCleanup ==
  /\ Exit(0, "cancelled_goodbye")
  /\ wd' = CleanDestination(wd, {})
  /\ stages' = Append(stages, "cleanup")
  /\ UNCHANGED failed

BrandExit ==
  /\ Exit(0, "cancelled_goodbye")
  /\ UNCHANGED <<wd, stages, failed>>

BrandMenu ==
  /\ UNCHANGED lang_log
  /\ pc = "brand_menu"
  /\ \E in \in MenuInputs :
     /\ typed' = in
     /\ LET choice == Strip(in)
           n == ToInt(choice) IN
       IF choice = <<>>
         THEN Reject("brand_menu")
              /\ UNCHANGED <<brand, brand_consoles, shown, exit_code, message>>
       ELSE IF ~n.ok
         THEN Reject("brand_wait") /\ message' = "invalid_input"
              /\ UNCHANGED <<brand, brand_consoles, shown, exit_code>>
       ELSE IF n.val = 0
         THEN BrandExit
              /\ UNCHANGED <<brand, brand_consoles, shown, invalid>>
       ELSE IF InRange(n.val, BRANDS)
         THEN EnterConsoleMenu(BRANDS[n.val])
       ELSE Reject("brand_wait") /\ message' = "invalid_number"
            /\ UNCHANGED <<brand, brand_consoles, shown, exit_code>>
  /\ UNCHANGED <<catalog, CONSOLES, BRANDS, wd_start, console, language,
                 copy_log, copy_result, confirmed, prev, runs, lang_report>>

\* wait_for_enter after a rejected input: the same menu is shown again
WaitForEnter ==
  /\ typed' = NoLine
  /\ UNCHANGED lang_log
  /\ pc \in {"brand_wait", "console_wait", "language_wait"}
  /\ pc' = CASE pc = "brand_wait" -> "brand_menu"
             [] pc = "console_wait" -> "console_menu"
             [] OTHER -> "language_menu"
  /\ UNCHANGED <<catalog, CONSOLES, BRANDS, wd, wd_start, brand, console, language,
                 exit_code, message, shown, stages, copy_log, copy_result, failed,
                 confirmed, prev, runs, brand_consoles, invalid, lang_report>>

\* console_menu returned None for lack of consoles; main() ends the run
NoConsoles ==
  /\ typed' = NoLine
  /\ UNCHANGED lang_log
  /\ pc = "noconsoles_wait"
  /\ Exit(0, "no_console_selected")
  /\ UNCHANGED <<catalog, CONSOLES, BRANDS, wd, wd_start, brand, console, language,
                 shown, stages, copy_log, copy_result, failed, confirmed, prev, runs,
                 brand_consoles, invalid, lang_report>>

\* ----------------------------------------------------------- console menu
ConsoleMenu ==
  /\ UNCHANGED lang_log
  /\ pc = "console_menu"
  /\ \E in \in MenuInputs :
     /\ typed' = in
     /\ LET choice == Strip(in)
           n == ToInt(choice) IN
       IF choice = <<>>
         THEN Reject("console_menu")
              /\ UNCHANGED <<console, shown, exit_code, message>>
       ELSE IF ~n.ok
         THEN Reject("console_wait") /\ message' = "invalid_input"
              /\ UNCHANGED <<console, shown, exit_code>>
       ELSE IF n.val = 0
         THEN Exit(0, "no_console_selected")
              /\ UNCHANGED <<console, shown, invalid>>
       ELSE IF InRange(n.val, brand_consoles)
         THEN /\ console' = SelectedConsole(brand_consoles[n.val])
              /\ pc' = "confirm"
              /\ shown' = shown \cup {"confirm"}
              /\ invalid' = 0
              /\ UNCHANGED <<exit_code, message>>
       ELSE Reject("console_wait") /\ message' = "invalid_number"
            /\ UNCHANGED <<console, shown, exit_code>>
  /\ UNCHANGED <<catalog, CONSOLES, BRANDS, wd, wd_start, brand, language, stages,
                 copy_log, copy_result, failed, confirmed, prev, runs, brand_consoles,
                 lang_report>>

\* ------------------------------------------------------------ confirmation
Confirm ==
  /\ UNCHANGED lang_log
  /\ pc = "confirm"
  /\ \E in \in ConfirmInputs :
     /\ typed' = in
     /\ IF Lower(Strip(Strip(in))) \in Affirmative
         THEN /\ confirmed' = TRUE
              /\ pc' = "cleanup"
              /\ UNCHANGED <<exit_code, message>>
         ELSE /\ Exit(0, "cancelled_by_user")
              /\ UNCHANGED confirmed
  /\ UNCHANGED <<catalog, CONSOLES, BRANDS, wd, wd_start, brand, console, language,
                 shown, stages, copy_log, copy_result, failed, prev, runs,
                 brand_consoles, invalid, lang_report>>

\* ---------------------------------------------------------------- cleanup
\* clean_destination_directory: every match of the patterns and the BMPs
\* directory are removed, except the names the system refuses to remove
Cleanup ==
  /\ typed' = NoLine
  /\ UNCHANGED lang_log
  /\ pc = "cleanup"
  /\ \E stuck \in SUBSET (GlobAll(wd) \cup BMPsFiles(wd)) :
       /\ wd' = CleanDestination(wd, stuck)
       /\ failed' = (failed \/ stuck # {})
  /\ stages' = Append(stages, "cleanup")
  /\ pc' = "copy"
  /\ UNCHANGED <<catalog, CONSOLES, BRANDS, wd_start, brand, console, language,
                 exit_code, message, shown, copy_log, copy_result, confirmed, prev,
                 runs, brand_consoles, invalid, lang_report>>

\* ------------------------------------------------------------------- copy
\* What one recursive_copy(consoles/<d>, ".") can do: ok are the files it
\* writes, res is what it returns.  It returns True only when every
\* top-level file was written; before Python 3.8 a failure below a
\* subdirectory is not reported.
CopyOutcomes(d) ==
  {o \in [ok : SUBSET Tree(d), res : BOOLEAN] :
     o.res => {n \in Tree(d) : n.dir = "."} \subseteq o.ok}

AllOutcomes == UNION {CopyOutcomes(d) : d \in SourceDirs}

NoOutcome == [ok |-> {}, res |-> FALSE]

Visit(r, o) == [resource |-> r, outcome |-> o]

\* the loop over extra_sources, from index i on
RECURSIVE CopyExtras(_, _, _, _)
CopyExtras(w, xs, outs, i) ==
  IF i > Len(xs) THEN [wd |-> w, log |-> <<>>, failed |-> FALSE]
  ELSE IF SourceExists(xs[i])
    THEN LET rest == CopyExtras(Merge(w, xs[i], outs[i].ok), xs, outs, i + 1) IN
         [wd |-> rest.wd,
          log |-> <<Visit(xs[i], IF outs[i].res THEN "copied" ELSE "failed")>> \o rest.log,
          failed |-> (rest.failed \/ ~outs[i].res \/ outs[i].ok # Tree(xs[i]))]
    ELSE LET rest == CopyExtras(w, xs, outs, i + 1) IN
         [wd |-> rest.wd,
          log |-> <<Visit(xs[i], "missing")>> \o rest.log,
          failed |-> rest.failed]

\* copy_console(selected_console)
CopyConsoleStrict(w, c, pout, outs) ==
  IF SourceExists(c.real_name)
    THEN IF ~pout.res
      THEN [wd |-> Merge(w, c.real_name, pout.ok), result |-> FALSE,
            log |-> <<Visit(c.real_name, "failed")>>, failed |-> TRUE]
      ELSE LET e == CopyExtras(Merge(w, c.real_name, pout.ok), c.extra_sources, outs, 1) IN
           [wd |-> e.wd,
            result |-> \A i \in 1..Len(e.log) : e.log[i].outcome = "copied",
            log |-> <<Visit(c.real_name, "copied")>> \o e.log,
            failed |-> (e.failed \/ pout.ok # Tree(c.real_name))]
    ELSE [wd |-> w, result |-> FALSE,
          log |-> <<Visit(c.real_name, "missing")>>, failed |-> FALSE]

CopyConsoleFallsThrough(w, c, pout, outs) ==
  LET primary == IF SourceExists(c.real_name) THEN Merge(w, c.real_name, pout.ok) ELSE w
      e == CopyExtras(primary, c.extra_sources, outs, 1) IN
  IF SourceExists(c.real_name) /\ ~pout.res
    THEN [wd |-> primary, result |-> FALSE,
          log |-> <<Visit(c.real_name, "failed")>>, failed |-> TRUE]
    ELSE [wd |-> e.wd, result |-> SourceExists(c.real_name),
          log |-> <<Visit(c.real_name,
                          IF SourceExists(c.real_name) THEN "copied" ELSE "missing")>> \o e.log,
          failed |-> (e.failed \/ pout.ok # Tree(c.real_name))]

CopyConsoleResult(w, c, pout, outs) ==
  IF SourceExists(c.real_name)
    THEN IF ~pout.res
      THEN [wd |-> Merge(w, c.real_name, pout.ok), result |-> FALSE,
            log |-> <<Visit(c.real_name, "failed")>>, failed |-> TRUE]
      ELSE LET e == CopyExtras(Merge(w, c.real_name, pout.ok), c.extra_sources, outs, 1) IN
           [wd |-> e.wd, result |-> TRUE,
            log |-> <<Visit(c.real_name, "copied")>> \o e.log,
            failed |-> (e.failed \/ pout.ok # Tree(c.real_name))]
    ELSE [wd |-> w, result |-> FALSE,
          log |-> <<Visit(c.real_name, "missing")>>, failed |-> FALSE]

OutcomesFor(d) == IF SourceExists(d) THEN CopyOutcomes(d) ELSE {NoOutcome}

CopyConsole ==
  /\ typed' = NoLine
  /\ UNCHANGED lang_log
  /\ pc = "copy"
  /\ \E pout \in OutcomesFor(console.real_name) :
     \E outs \in [1..Len(console.extra_sources) -> AllOutcomes \cup {NoOutcome}] :
       /\ \A i \in 1..Len(console.extra_sources) :
            outs[i] \in OutcomesFor(console.extra_sources[i])
       /\ LET r == CopyConsoleResult(wd, console, pout, outs) IN
          /\ wd' = r.wd
          /\ copy_log' = r.log
          /\ copy_result' = r.result
          /\ failed' = (failed \/ r.failed)
          /\ IF r.result
               THEN /\ pc' = "language_menu"
                    /\ shown' = shown \cup {"language_menu"}
                    /\ UNCHANGED <<exit_code, message>>
               ELSE /\ Exit(0, "copy_error")
                    /\ UNCHANGED shown
  /\ stages' = Append(stages, "copy")
  /\ UNCHANGED <<catalog, CONSOLES, BRANDS, wd_start, brand, console, language,
                 confirmed, prev, runs, brand_consoles, invalid, lang_report>>

\* --------------------------------------------------------------- language
\* main() lines 522-546: the summary screen and its language line
LangReport(lang, w) ==
  IF lang # None THEN lang
  ELSE IF Exists(w, DotCn) THEN "cn_kept"
  ELSE IF Exists(w, DotBr) THEN "br_kept"
  ELSE "en_kept"

ShowSummary(lang, w) ==
  /\ pc' = "summary"
  /\ shown' = shown \cup {"summary"}
  /\ message' = "success"
  /\ lang_report' = LangReport(lang, w)

LanguageOf(n) ==
  CASE n = 0 -> None [] n = 1 -> "en" [] n = 2 -> "cn" [] n = 3 -> "br" [] OTHER -> "invalid"

LanguageChosen(lang) ==
  /\ language' = lang
  /\ invalid' = 0
  /\ IF lang # None
       THEN pc' = "apply_language" /\ UNCHANGED <<shown, message, lang_report>>
       ELSE ShowSummary(lang, wd)

LanguageMenu ==
  /\ UNCHANGED lang_log
  /\ pc = "language_menu"
  /\ \E in \in MenuInputs :
     /\ typed' = in
     /\ LET choice == Strip(in)
           n == ToInt(choice) IN
       IF choice = <<>>
         THEN LanguageChosen(None)
       ELSE IF ~n.ok
         THEN Reject("language_wait") /\ message' = "invalid_input"
              /\ UNCHANGED <<language, shown, lang_report>>
       ELSE IF LanguageOf(n.val) # "invalid"
         THEN LanguageChosen(LanguageOf(n.val))
       ELSE Reject("language_wait") /\ message' = "invalid_choice"
            /\ UNCHANGED <<language, shown, lang_report>>
  /\ UNCHANGED <<catalog, CONSOLES, BRANDS, wd, wd_start, brand, console, exit_code,
                 stages, copy_log, copy_result, failed, confirmed, prev, runs,
                 brand_consoles>>

Markers == <<DotCn, DotBr, DotEn>>

HasMarker(lang) == lang \in {"cn", "br"}

MarkerOf(lang) == IF lang = "cn" THEN DotCn ELSE DotBr

MarkerText(lang) == IF lang = "cn" THEN MarkerTexts.cn ELSE MarkerTexts.br

\* apply_language(lang) when the markers in stuck cannot be removed and the
\* marker file can (created) or cannot be written
ApplyLanguageCreateFirst(w, lang, stuck, created) ==
  LET written == IF HasMarker(lang) /\ created
                   THEN [w EXCEPT ![MarkerOf(lang)] = MarkerText(lang)]
                   ELSE w IN
  Remove(written, {m \in Range(Markers) : Exists(written, m)} \ stuck)

ApplyLanguageTo(w, lang, stuck, created) ==
  LET removed == Remove(w, {m \in Range(Markers) : Exists(w, m)} \ stuck) IN
  IF HasMarker(lang) /\ created
    THEN [removed EXCEPT ![MarkerOf(lang)] = MarkerText(lang)]
    ELSE removed

ApplyLanguage ==
  /\ typed' = NoLine
  /\ pc = "apply_language"
  /\ \E stuck \in SUBSET {m \in Range(Markers) : Exists(wd, m)} :
     \E created \in BOOLEAN :
       /\ ~HasMarker(language) => created
       /\ wd' = ApplyLanguageTo(wd, language, stuck, created)
       /\ lang_log' = [ran |-> TRUE,
                        before |-> {m \in Range(Markers) : Exists(wd, m)},
                        stuck |-> stuck,
                        written |-> HasMarker(language) /\ created]
       /\ failed' = (failed \/ stuck # {} \/ ~created)
       /\ ShowSummary(language, wd')
  /\ stages' = Append(stages, "language")
  /\ UNCHANGED <<catalog, CONSOLES, BRANDS, wd_start, brand, console, language,
                 exit_code, copy_log, copy_result, confirmed, prev, runs,
                 brand_consoles, invalid>>

\* the final wait_for_enter of main()
Summary ==
  /\ typed' = NoLine
  /\ UNCHANGED lang_log
  /\ pc = "summary"
  /\ Exit(0, "success")
  /\ UNCHANGED <<catalog, CONSOLES, BRANDS, wd, wd_start, brand, console, language,
                 shown, stages, copy_log, copy_result, failed, confirmed, prev, runs,
                 brand_consoles, invalid, lang_report>>

\* ------------------------------------------------------------ interrupt
\* the stages of main() that work on the directory, where it is not waiting
\* for input
Working == {"cleanup", "copy", "apply_language"}

\* KeyboardInterrupt raised while main() is working: no handler below main()
\* catches it (except OSError and except Exception do not), so the stage stops
\* where it is, main() prints the interrupted message and returns
Interrupt ==
  /\ pc \in Working
  /\ typed' = NoLine
  /\ CASE pc = "cleanup" ->
            \E gone \in SUBSET (GlobAll(wd) \cup BMPsFiles(wd)) : wd' = Remove(wd, gone)
       [] pc = "copy" ->
            \E pout \in OutcomesFor(console.real_name) :
            \E outs \in [1..Len(console.extra_sources) -> AllOutcomes \cup {NoOutcome}] :
              /\ \A i \in 1..Len(console.extra_sources) :
                   outs[i] \in OutcomesFor(console.extra_sources[i])
              /\ wd' = CopyConsoleResult(wd, console, pout, outs).wd
       [] OTHER ->
            \E stuck \in SUBSET {m \in Range(Markers) : Exists(wd, m)} :
            \E created \in BOOLEAN :
              wd' = ApplyLanguageTo(wd, language, stuck, created)
  /\ Exit(0, "interrupted")
  /\ UNCHANGED <<catalog, CONSOLES, BRANDS, wd_start, brand, console, language,
                 shown, stages, copy_log, copy_result, failed, confirmed, prev, runs,
                 brand_consoles, invalid, lang_report, lang_log>>

\* ------------------------------------------------------------ next run
\* the user starts the program again in the same working directory
Restart ==
  /\ pc = "exited"
  /\ runs < MaxRuns
  /\ prev' = [valid |-> TRUE, catalog |-> catalog, brand |-> brand, console |-> console,
              confirmed |-> confirmed, language |-> language,
              failed |-> failed, wd |-> wd]
  /\ runs' = runs + 1
  /\ catalog' = catalog
  /\ wd_start' = wd
  /\ pc' = "start"
  /\ CONSOLES' = <<>>
  /\ BRANDS' = <<>>
  /\ brand' = None
  /\ console' = NoConsole
  /\ language' = None
  /\ exit_code' = Running
  /\ message' = None
  /\ shown' = {}
  /\ stages' = <<>>
  /\ copy_log' = <<>>
  /\ copy_result' = FALSE
  /\ failed' = FALSE
  /\ confirmed' = FALSE
  /\ brand_consoles' = <<>>
  /\ invalid' = 0
  /\ lang_report' = None
  /\ typed' = NoLine
  /\ lang_log' = NoLangLog
  /\ UNCHANGED wd

Next ==
  \/ LoadConfiguration
  \/ ShowIntroduction
  \/ Cancel
  \/ BrandMenu
  \/ WaitForEnter
  \/ NoConsoles
  \/ ConsoleMenu
  \/ Confirm
  \/ Cleanup
  \/ CopyConsole
  \/ LanguageMenu
  \/ ApplyLanguage
  \/ Summary
  \/ Interrupt

Spec == Init /\ [][Next]_vars

\* the same program run MaxRuns times in a row in one working directory
InitTwice ==
  /\ Init
  /\ catalog.state = "ok"

\* from the second run on the user gives the answers of the run before
BrandMenuAgain == BrandMenu /\ (prev.valid => brand' \in {None, prev.brand})

ConsoleMenuAgain == ConsoleMenu /\ (prev.valid => console' \in {NoConsole, prev.console})

ConfirmAgain == Confirm /\ (prev.valid => confirmed' = prev.confirmed)

LanguageMenuAgain == LanguageMenu /\ (prev.valid => language' = prev.language)

NextTwice ==
  \/ LoadConfiguration
  \/ ShowIntroduction
  \/ BrandMenuAgain
  \/ WaitForEnter
  \/ NoConsoles
  \/ ConsoleMenuAgain
  \/ ConfirmAgain
  \/ Cleanup
  \/ CopyConsole
  \/ LanguageMenuAgain
  \/ ApplyLanguage
  \/ Summary
  \/ Restart

SpecTwice == InitTwice /\ [][NextTwice]_vars

\* one run in a working directory that holds every combination of marker
\* files, written by an earlier run or put there by the user
MarkerDirs ==
  {[n \in Names |-> CASE n = DotCn -> t[1] [] n = DotBr -> t[2] [] n = DotEn -> t[3]
                       [] OTHER -> Absent] :
     t \in {Absent, MarkerTexts.cn, "user"} \X {Absent, MarkerTexts.br, "user"}
            \X {Absent, "user"}}

InitLanguage ==
  /\ FreshRun
  /\ catalog \in CatalogFiles
  /\ catalog.state = "ok"
  /\ wd \in MarkerDirs
  /\ wd_start = wd
  /\ prev = NoPrev
  /\ runs = 1

SpecLanguage == InitLanguage /\ [][Next]_vars

\* the selection flow alone, up to the confirmation prompt, over every
\* small catalog
InitMenus ==
  /\ FreshRun
  /\ catalog \in SmallCatalogs
  /\ wd = [n \in Names |-> Absent]
  /\ wd_start = wd
  /\ prev = NoPrev
  /\ runs = 1

NextMenus ==
  \/ LoadConfiguration
  \/ ShowIntroduction
  \/ BrandMenu
  \/ WaitForEnter
  \/ NoConsoles
  \/ ConsoleMenu

SpecMenus == InitMenus /\ [][NextMenus]_vars

\* ================================================================ claims
ReachedSummary == "summary" \in shown

MarkersPresent(w) == {m \in {DotCn, DotBr} : Exists(w, m)}

\* C1: when no language was chosen (language menu answered 0 or empty), a
\* run that reaches the success summary leaves .cn and .br as they were
\* when the run started.
C1_MarkersKept ==
  (ReachedSummary /\ language = None) =>
    \A m \in {DotCn, DotBr} : Exists(wd, m) <=> Exists(wd_start, m)

\* C2: choosing 0 at the brand menu ends the run with no cleanup, no copy,
\* no language tagging and an unchanged working directory, whatever inputs
\* were rejected before.
C2_BrandExitChangesNothing ==
  message = "cancelled_goodbye" =>
    /\ pc = "exited"
    /\ exit_code = 0
    /\ stages = <<>>
    /\ wd = wd_start
    /\ shown = {"intro", "brand_menu"}

C2_Witness ==
  /\ pc = "exited"
  /\ message = "cancelled_goodbye"
  /\ invalid > 0
  /\ Exists(wd, XDtb) /\ Exists(wd, Logo) /\ Exists(wd, DotBr)

\* C3: after every successful run at most one of .cn and .br exists, and
\* when a language was applied the markers present are exactly the marker
\* of that language (none for English).
ExpectedMarkers(lang) == IF HasMarker(lang) THEN {MarkerOf(lang)} ELSE {}

C3_OneMarker ==
  ReachedSummary =>
    /\ Cardinality(MarkersPresent(wd)) <= 1
    /\ language # None => MarkersPresent(wd) = ExpectedMarkers(language)

\* C4: once cleanup and copy completed for console C, every artifact in the
\* working directory (*.dtb, *.ini, *.orig, *.tony, BMPs and its contents)
\* comes from C's primary directory or one of C's extra sources, and no file
\* copied in from another console's sources remains.
IsArtifact(n) ==
  \/ n.dir = "BMPs"
  \/ n.dir = "." /\ n.ext \in {".dtb", ".ini", ".orig", ".tony"}

SourcesOf(c) == {c.real_name} \cup Range(c.extra_sources)

C4_OnlyOneConsole ==
  ("copy" \in Range(stages) /\ copy_result) =>
    \A n \in Names :
      /\ (Exists(wd, n) /\ IsArtifact(n)) => wd[n] \in SourcesOf(console)
      /\ wd[n] \in SourceDirs => wd[n] \in SourcesOf(console)

\* C5: copy_console returns success exactly when consoles/<real_name>
\* exists and its recursive copy succeeded; whatever extra resources are
\* missing or fail, every extra resource is visited in list order and the
\* result stays a success.
CopyRan == "copy" \in Range(stages)

C5_CopyResult ==
  CopyRan =>
    LET xs == console.extra_sources IN
    /\ copy_log[1].resource = console.real_name
    /\ copy_log[1].outcome = "missing" <=> ~SourceExists(console.real_name)
    /\ copy_result <=> (SourceExists(console.real_name) /\ copy_log[1].outcome = "copied")
    /\ copy_result =>
         /\ Len(copy_log) = Len(xs) + 1
         /\ \A i \in 1..Len(xs) :
              /\ copy_log[i + 1].resource = xs[i]
              /\ copy_log[i + 1].outcome = "missing" <=> ~SourceExists(xs[i])

C5_Witness ==
  /\ CopyRan
  /\ copy_result
  /\ \E i \in 2..Len(copy_log) : copy_log[i].outcome = "missing"
  /\ \E i \in 2..Len(copy_log) : copy_log[i].outcome = "failed"
  /\ ~Exists(wd, Logo)

\* C6: when consoles/<real_name> is missing the menus succeeded, the copy
\* stage changes nothing and fails, and the run ends on the error path: no
\* extra resource is copied, no language menu, no marker, no summary, and
\* what cleanup deleted stays deleted.
PrimaryMissing == CopyRan /\ copy_log[1].outcome = "missing"

C6_MissingPrimaryAborts ==
  /\ [](PrimaryMissing =>
          /\ pc = "exited"
          /\ message = "copy_error"
          /\ ~copy_result
          /\ Len(copy_log) = 1
          /\ stages = <<"cleanup", "copy">>
          /\ {"brand_menu", "console_menu", "confirm"} \subseteq shown
          /\ "language_menu" \notin shown
          /\ "summary" \notin shown
          /\ language = None
          /\ \A n \in Names : Exists(wd, n) => wd[n] = wd_start[n])
  /\ [][(pc = "copy" /\ ~SourceExists(console.real_name)) => wd' = wd]_vars

C6_Witness ==
  /\ PrimaryMissing
  /\ pc = "exited"
  /\ Exists(wd_start, XDtb) /\ ~Exists(wd, XDtb)
  /\ Exists(wd_start, DotCn) /\ ~Exists(wd, DotCn)
  /\ ~Exists(wd, Logo)

\* C7: when the console menu finds no console for the chosen brand, the
\* driver shows the brand menu again instead of ending the run.
C7_BackToBrandMenu ==
  [][(pc = "noconsoles_wait" /\ message' # "operation_cancelled") => pc' = "brand_menu"]_vars

\* C8: each of the three catalog failures ends the process with a non-zero
\* status and its own message before any screen is shown or prompt is read,
\* with no stage executed and the working directory unchanged.
CatalogMessages ==
  [absent |-> "file_not_found", malformed |-> "json_error", nokey |-> "invalid_structure"]

C8_CatalogFailureIsFatal ==
  catalog.state # "ok" =>
    /\ pc \in {"start", "exited"}
    /\ shown = {}
    /\ stages = <<>>
    /\ wd = wd_start
    /\ pc = "exited" =>
         /\ exit_code # 0 /\ exit_code # Running
         /\ message = CatalogMessages[catalog.state]
         /\ \A other \in DOMAIN CatalogMessages :
              other # catalog.state => message # CatalogMessages[other]

C8_Witness ==
  /\ catalog.state = "nokey"
  /\ pc = "exited"
  /\ message = "invalid_structure"
  /\ Exists(wd, XDtb)

\* C9: the console menu lists exactly one (console record, display_name)
\* pair per brand entry of the chosen brand, consoles in catalog order and
\* entries in record order; the list is empty exactly when the brand has no
\* entry, and then the menu reports 'no consoles' and selects nothing.
Positions(cs, b) ==
  {p \in (1..Len(cs)) \X (1..(MaxEntries + 1)) :
     /\ p[2] <= Len(cs[p[1]].brand_entries)
     /\ cs[p[1]].brand_entries[p[2]].brand = b}

Before(p, q) == p[1] < q[1] \/ (p[1] = q[1] /\ p[2] < q[2])

Rank(p, P) == Cardinality({q \in P : Before(q, p)}) + 1

MenuRan == brand # None

C9_ConsoleListIsFilter ==
  MenuRan =>
    LET P == Positions(CONSOLES, brand) IN
    /\ Len(brand_consoles) = Cardinality(P)
    /\ \A p \in P :
         brand_consoles[Rank(p, P)] =
           [console_config |-> CONSOLES[p[1]],
            display_name |-> CONSOLES[p[1]].brand_entries[p[2]].display_name]
    /\ P = {} =>
         /\ (pc = "noconsoles_wait" /\ message = "no_consoles_found") \/ pc = "exited"
         /\ console = NoConsole
         /\ "console_menu" \notin shown
    /\ P # {} => (pc # "noconsoles_wait" /\ "console_menu" \in shown)

C9_Witness ==
  /\ pc = "console_menu"
  /\ Len(CONSOLES) = 2
  /\ Len(brand_consoles) = 3
  /\ brand_consoles[1].console_config = brand_consoles[2].console_config
  /\ brand_consoles[1].display_name # brand_consoles[2].display_name
  /\ \E k \in 1..2 : \E i \in 1..Len(CONSOLES[k].brand_entries) :
       CONSOLES[k].brand_entries[i].brand # brand

\* C10 (as stated): running the whole flow twice in a row with the same
\* brand, console, confirmation and language leaves the working directory
\* after the second run as it was after the first.
SameChoices ==
  /\ prev.valid
  /\ prev.brand = brand
  /\ prev.console = console
  /\ prev.confirmed = confirmed
  /\ prev.language = language

StageOf(p) ==
  CASE p \in {"start", "intro"} -> 0
    [] p \in {"brand_menu", "brand_wait"} -> 1
    [] p \in {"noconsoles_wait", "console_menu", "console_wait"} -> 2
    [] p = "confirm" -> 3
    [] p = "cleanup" -> 4
    [] p = "copy" -> 5
    [] p \in {"language_menu", "language_wait", "apply_language"} -> 6
    [] p = "summary" -> 7
    [] OTHER -> 8

StageOrder == <<"cleanup", "copy", "language">>

\* the answers the confirmation accepts
Tokens == { <<"y">>, <<"y", "e", "s">>, <<"s">>, <<"s", "i", "m">> }

SameLetter(a, b) ==
  \/ a = b
  \/ <<a, b>> \in { <<"Y", "y">>, <<"E", "e">>, <<"S", "s">>, <<"I", "i">>, <<"M", "m">> }

\* line is a token in any case between any number of spaces
Yes(line) ==
  \E t \in Tokens : \E k \in 0..Len(line) :
    /\ k + Len(t) <= Len(line)
    /\ \A i \in 1..Len(line) :
         IF k < i /\ i <= k + Len(t)
           THEN SameLetter(line[i], t[i - k])
           ELSE line[i] = Space

C11_State ==
  /\ Len(stages) <= 3
  /\ stages = SubSeq(StageOrder, 1, Len(stages))
  /\ stages # <<>> => confirmed
  /\ ~confirmed => wd = wd_start
  /\ StageOf(pc) \in {4, 5, 6} => confirmed
  /\ pc = "copy" => stages = <<"cleanup">>
  /\ StageOf(pc) = 6 => copy_result /\ Len(stages) >= 2
  /\ Len(stages) = 3 => copy_result
  /\ message = "cancelled_by_user" => pc = "exited" /\ wd = wd_start

C11_Step ==
  /\ StageOf(pc') \in {StageOf(pc), StageOf(pc) + 1, 8}
  /\ wd' # wd => confirmed /\ pc \in {"cleanup", "copy", "apply_language"}
  /\ (wd' # wd /\ pc = "copy") => "cleanup" \in Range(stages)
  /\ (pc = "confirm" /\ pc' = "cleanup") => Yes(typed')
  /\ (pc = "confirm" /\ typed' # NoLine /\ ~Yes(typed'))
       => pc' = "exited" /\ wd' = wd_start /\ ~confirmed'
  /\ (pc = "confirm" /\ typed' # NoLine /\ Yes(typed')) => pc' = "cleanup"

\* C11: the stages of a run occur only in the order brand, console,
\* confirmation, cleanup, copy, language tagging, summary; the working
\* directory changes only after the confirmation was answered with y, yes, s
\* or sim in any case between any spaces, any other answer ends the run with
\* the working directory as it was, the cleanup has run before the first file
\* is copied, and the language is tagged only after the copy returned success
C11_StagesInOrder == []C11_State /\ [][C11_Step]_vars

C11_Witness ==
  /\ pc = "exited"
  /\ confirmed
  /\ stages = StageOrder
  /\ wd # wd_start

\* ------------------------------------------------------------------- C12
\* what a menu step leaves alone when it rejects the line
NothingChanged ==
  /\ brand' = brand
  /\ console' = console
  /\ brand_consoles' = brand_consoles
  /\ wd' = wd
  /\ stages' = stages
  /\ exit_code' = Running
  /\ confirmed' = confirmed

C12_BrandStep ==
  (pc = "brand_menu" /\ typed' # NoLine) =>
    LET n == ToInt(Strip(typed')) IN
    IF n.ok /\ n.val = 0
      THEN pc' = "exited" /\ exit_code' = 0 /\ brand' = brand /\ wd' = wd
    ELSE IF n.ok /\ 1 <= n.val /\ n.val <= Len(BRANDS)
      THEN brand' = BRANDS[n.val] /\ pc' \in {"console_menu", "noconsoles_wait"}
    ELSE pc' \in {"brand_menu", "brand_wait"} /\ NothingChanged

C12_ConsoleStep ==
  (pc = "console_menu" /\ typed' # NoLine) =>
    LET n == ToInt(Strip(typed')) IN
    IF n.ok /\ n.val = 0
      THEN pc' = "exited" /\ exit_code' = 0 /\ console' = console /\ wd' = wd
    ELSE IF n.ok /\ 1 <= n.val /\ n.val <= Len(brand_consoles)
      THEN /\ console' = SelectedConsole(brand_consoles[n.val])
           /\ console'.display_name = brand_consoles[n.val].display_name
           /\ pc' = "confirm"
    ELSE pc' \in {"console_menu", "console_wait"} /\ NothingChanged

\* after the error message the same menu comes back, or the user cancels
C12_WaitStep ==
  /\ pc = "brand_wait" => pc' \in {"brand_menu", "exited"} /\ brand' = brand
  /\ pc = "console_wait" => pc' \in {"console_menu", "exited"} /\ console' = console
  /\ pc \in {"brand_wait", "console_wait"} => wd' = wd /\ brand_consoles' = brand_consoles

AllMarkers == {DotCn, DotBr, DotEn}

MarkersOf(w) == {m \in AllMarkers : w[m] # Absent}

\* the marker of a language: .cn for cn, .br for br, none for en
OneOf(lang) ==
  CASE lang = "cn" -> {DotCn} [] lang = "br" -> {DotBr} [] OTHER -> {}

\* apply_language has run and removed every marker it found
Applied == lang_log.ran /\ lang_log.stuck = {} /\ language \in {"en", "cn", "br"}

Cancelled ==
  /\ pc # "exited"
  /\ pc' = "exited"
  /\ message' \in {"operation_cancelled", "interrupted"}

\* C14: a cancellation by the user ends the run only at an input prompt, with
\* status 0 and the working directory as it is; after an affirmative
\* confirmation the cleanup goes on to the copy and the copy to the language
\* prompt or to a copy failure, so no run ends on an interrupt with the
\* directory partly cleaned or partly copied
C14_CancelOnlyAtPrompt ==
  [][/\ Cancelled => pc \in Prompts /\ exit_code' = 0 /\ wd' = wd
     /\ pc = "cleanup" => pc' = "copy"
     /\ pc = "copy" => \/ pc' = "language_menu"
                       \/ pc' = "exited" /\ message' = "copy_error"]_vars

\* a run ended by an interrupt during the copy: the files of the run before
\* are gone and nothing of the selected console has arrived
InterruptedMidCopy ==
  /\ pc = "exited"
  /\ message = "interrupted"
  /\ exit_code = 0
  /\ confirmed
  /\ stages = <<"cleanup">>
  /\ wd_start[XDtb] = "user"
  /\ \A n \in Names : wd[n] = Absent

====
